---- MODULE Spec2Model ----
(***************************************************************************)
(* One conversational turn of the LangGraph agent                          *)
(* (orchestrator/app/langgraph_agent.py) with its collaborators: the LLM   *)
(* client, the vector store and the tool registry.                         *)
(*                                                                         *)
(* A text is a sequence of string tokens; an f-string or a join is the     *)
(* concatenation of its parts.  A key that a mapping does not carry is the *)
(* token Absent.                                                           *)
(***************************************************************************)
EXTENDS Integers, Sequences, FiniteSets, TLC

VARIABLES
    messages,         \* AgentState["messages"]
    tool_calls,       \* AgentState["tool_calls"]
    current_step,     \* AgentState["current_step"]
    max_iterations,   \* AgentState["max_iterations"]
    iteration_count,  \* AgentState["iteration_count"]
    node,             \* the node of the compiled graph that runs next
    raised,           \* the exception the graph run raised, or NoError
    result,           \* what process_request returned, or NoResult
    gen_calls,        \* history: calls of LLMClient.chat_completion
    gen_failed,       \* history: a generation call failed
    tool_cycles,      \* history: runs of _execute_tools
    dispatched,       \* history: ids handed to ToolRegistry.execute_tool
    emitted,          \* history: tool calls the model emitted so far
    retrieval,        \* history: outcome of VectorStore.search
    initial,          \* history: message_dicts as process_request built it
    heard,            \* history: the collaborators' answers to the turn, in order
    direct,           \* the last direct call of ToolRegistry.execute_tool
    turn,             \* the coroutine the event loop is running
    other,            \* the turn of the suspended coroutine, if there is one
    solo,             \* the reference turn: the same request, run alone
    registry,         \* the keys of ToolRegistry.tools
    http,             \* the last request to the HTTP API and its answer
    fs                \* the file system: what each path holds

vars == <<messages, tool_calls, current_step, max_iterations, iteration_count,
          node, raised, result, gen_calls, gen_failed, tool_cycles,
          dispatched, emitted, retrieval, initial, heard, direct, turn,
          other, solo, registry, http, fs>>

state == <<messages, tool_calls, current_step, max_iterations, iteration_count>>
history == <<gen_calls, gen_failed, tool_cycles, dispatched, emitted,
             retrieval, initial, heard>>
\* what no node of the running turn has access to
\* what is outside the turns and the registry: the HTTP API, the file system
world == <<http, fs>>
outside == <<direct, turn, other, solo, registry, world>>

---------------------------------------------------------------------------
(* Bounds of the model *)

\* largest max_iterations a caller passes
MaxIter == 2
\* tool calls the model emits in one turn, over all its responses
MaxCalls == 2
\* entries of a final message sequence handed to the result extraction
MaxFinal == 3

---------------------------------------------------------------------------
(* Values *)

\* a key the mapping does not carry
Absent == "<absent>"
\* no exception in flight
NoError == <<>>
\* Optional values: Python's None, and a present value
Nothing == <<>>
Just(v) == <<v>>
\* a message content that is Python's None
NullContent == <<"<None>">>

\* a path that holds nothing, and one that holds a directory
Missing == "<missing>"
Directory == "<dir>"
\* the paths of the model: a directory, two entries of it, and a path under a
\* directory that never exists
Paths == {"/d", "/d/a", "/d/b", "/none/c"}
\* no path holds anything
NoFiles == [p \in Paths |-> Missing]

\* ChatMessage -> dict, as process_request converts it
MessageDict(role, content) ==
    [role |-> role, content |-> content, tool_calls |-> <<>>,
     tool_call_id |-> Absent]

\* the requests callers send: none, one user message, a system prompt before
\* it, an assistant message after it
InitialMessages ==
    { <<>>,
      << MessageDict("user", <<"Hello">>) >>,
      << MessageDict("system", <<"Be brief">>), MessageDict("user", <<"Hello">>) >>,
      << MessageDict("user", <<"Hello">>), MessageDict("assistant", <<"Earlier">>) >> }

Last(s) == s[Len(s)]

RECURSIVE Join(_, _)
\* sep.join(texts)
Join(sep, texts) ==
    IF texts = <<>> THEN <<>>
    ELSE IF Len(texts) = 1 THEN texts[1]
    ELSE texts[1] \o sep \o Join(sep, Tail(texts))

---------------------------------------------------------------------------
(* Tool registry: orchestrator/app/tools.py *)

\* ToolRegistry.tools after _register_default_tools
RegisteredTools ==
    {"get_map", "apply_patch", "search_logs", "run_tests", "file_operations"}

\* the parameters a handler's signature requires
RequiredParams(name) ==
    CASE name = "get_map" -> {"key"}
      [] name = "apply_patch" -> {"repo", "patch"}
      [] name = "search_logs" -> {"pattern"}
      [] name = "run_tests" -> {"project_path"}
      [] name = "file_operations" -> {"operation", "path"}

\* the parameters a handler's signature defaults
OptionalParams(name) ==
    CASE name = "get_map" -> {}
      [] name = "apply_patch" -> {}
      [] name = "search_logs" -> {"log_path"}
      [] name = "run_tests" -> {"test_pattern"}
      [] name = "file_operations" -> {"content"}

\* one entry of the list get_tool_schemas returns
ToolSchema(name, properties, required) ==
    [type |-> "function",
     function |-> [name |-> name, properties |-> properties,
                   required |-> required]]

\* ToolRegistry.get_tool_schemas: a list literal
get_tool_schemas ==
    << ToolSchema("get_map", <<"key">>, <<"key">>),
       ToolSchema("apply_patch", <<"repo", "patch">>, <<"repo", "patch">>),
       ToolSchema("search_logs", <<"pattern", "log_path">>, <<"pattern">>),
       ToolSchema("run_tests", <<"project_path", "test_pattern">>,
                  <<"project_path">>),
       ToolSchema("file_operations", <<"operation", "path", "content">>,
                  <<"operation", "path">>) >>

\* get_map's mock_data, each entry serialized
MockData(key) ==
    CASE key = "boost_target" -> Just("{anomalies: [...], status: active}")
      [] key = "engine_params" -> Just("{rpm: 2500, temperature: 85, pressure: 2.3}")
      [] OTHER -> Nothing

\* get_map: a dict as its sequence of <<key, value>> items
get_map(key) ==
    IF MockData(key) # Nothing
    THEN << <<"key", key>>, <<"data", MockData(key)[1]>> >>
    ELSE << <<"key", key>>, <<"data", "null">>, <<"error", "Key not found">> >>

\* a JSON array given as a value: a Python list, which cannot be a dict key
ListValue == "[1]"

\* the handler's body raises: `key in mock_data` with an unhashable key
HandlerRaises(name, arguments) ==
    name = "get_map" /\ arguments.key = ListValue

\* str(e) of what the handler's body raised
HandlerError(name, arguments) == <<"unhashable type: 'list'">>

\* the handlers the model's requests reach; the other handlers are mocks that
\* return a fixed non-empty mapping
CallHandler(name, arguments) ==
    IF name = "get_map" THEN get_map(arguments.key)
    ELSE << <<"tool", name>>, <<"status", "ok">> >>

\* handler(**arguments) binds: every required parameter given, no unknown one
BindsTo(name, arguments) ==
    /\ RequiredParams(name) \subseteq DOMAIN arguments
    /\ DOMAIN arguments \subseteq RequiredParams(name) \cup OptionalParams(name)

\* execute_tool with no membership test: self.tools[tool_name] raises KeyError
execute_tool_unguarded(tool_name, tool_call_id, arguments) ==
    IF tool_name \notin registry
    THEN [tool_call_id |-> tool_call_id, result |-> Nothing,
          error |-> Just(<<"'", tool_name, "'">>)]
    ELSE IF ~BindsTo(tool_name, arguments)
    THEN [tool_call_id |-> tool_call_id, result |-> Nothing,
          error |-> Just(<<tool_name, "() got an unexpected keyword argument">>)]
    ELSE IF HandlerRaises(tool_name, arguments)
    THEN [tool_call_id |-> tool_call_id, result |-> Nothing,
          error |-> Just(HandlerError(tool_name, arguments))]
    ELSE [tool_call_id |-> tool_call_id,
          result |-> Just(CallHandler(tool_name, arguments)),
          error |-> Nothing]

\* execute_tool whose except block reports the fault inside result as well
execute_tool_partial(tool_name, tool_call_id, arguments) ==
    IF tool_name \notin registry
    THEN [tool_call_id |-> tool_call_id, result |-> Nothing,
          error |-> Just(<<"Unknown tool: ", tool_name>>)]
    ELSE IF ~BindsTo(tool_name, arguments)
    THEN [tool_call_id |-> tool_call_id,
          result |-> Just(<< <<"error", "TypeError">> >>),
          error |-> Just(<<tool_name, "() got an unexpected keyword argument">>)]
    ELSE IF HandlerRaises(tool_name, arguments)
    THEN [tool_call_id |-> tool_call_id,
          result |-> Just(<< <<"error", "TypeError">> >>),
          error |-> Just(HandlerError(tool_name, arguments))]
    ELSE [tool_call_id |-> tool_call_id,
          result |-> Just(CallHandler(tool_name, arguments)),
          error |-> Nothing]

\* the handlers execute_tool calls: self.tools[tool_name](**arguments)
HandlerCalls(tool_name, arguments) ==
    IF tool_name \in registry THEN <<tool_name>> ELSE <<>>

\* ToolRegistry.execute_tool -> ToolResponse
execute_tool(tool_name, tool_call_id, arguments) ==
    IF tool_name \notin registry
    THEN [tool_call_id |-> tool_call_id, result |-> Nothing,
          error |-> Just(<<"Unknown tool: ", tool_name>>)]
    ELSE IF ~BindsTo(tool_name, arguments)
    THEN [tool_call_id |-> tool_call_id, result |-> Nothing,
          error |-> Just(<<tool_name, "() got an unexpected keyword argument">>)]
    ELSE IF HandlerRaises(tool_name, arguments)
    THEN [tool_call_id |-> tool_call_id, result |-> Nothing,
          error |-> Just(HandlerError(tool_name, arguments))]
    ELSE [tool_call_id |-> tool_call_id,
          result |-> Just(CallHandler(tool_name, arguments)),
          error |-> Nothing]

---------------------------------------------------------------------------
(* json *)

\* json.loads accepts the text
JsonValid(text) ==
    text \in {"{key: engine_params}", "{bogus: 1}", "{key: [1]}"}

\* json.loads of an accepted text
JsonLoads(text) ==
    IF text = "{key: engine_params}" THEN [key |-> "engine_params"]
    ELSE IF text = "{key: [1]}" THEN [key |-> ListValue]
    ELSE [bogus |-> "1"]

RECURSIVE DumpItems(_)
\* the items of a dict, serialized and comma-separated
DumpItems(items) ==
    IF items = <<>> THEN <<>>
    ELSE <<items[1][1], ": ", items[1][2]>>
         \o (IF Len(items) > 1 THEN <<", ">> ELSE <<>>)
         \o DumpItems(Tail(items))

\* json.dumps of a dict
JsonDumps(items) == <<"{">> \o DumpItems(items) \o <<"}">>

\* Python truthiness of an Optional dict: None and {} are falsy
Truthy(opt) == opt # Nothing /\ opt[1] # <<>>

---------------------------------------------------------------------------
(* Vector store: orchestrator/app/vector_store.py *)

\* what the embedding service and Qdrant answer to one search: a failure of
\* either, or the scored points Qdrant returns
SearchBackends ==
    { [ok |-> FALSE, points |-> <<>>],
      [ok |-> TRUE, points |-> <<>>],
      [ok |-> TRUE,
       points |-> << [id |-> "d1", score |-> 9, text |-> <<"Passage one">>],
                     [id |-> "d2", score |-> 8, text |-> <<"Passage two">>] >>] }

\* VectorStore.search raises "Search failed: ..."
SearchRaises(backend) == ~backend.ok

\* VectorStore.search returns one mapping per point, in Qdrant's order
search(backend) ==
    [i \in 1..Len(backend.points) |->
        [id |-> backend.points[i].id, score |-> backend.points[i].score,
         text |-> backend.points[i].text]]

---------------------------------------------------------------------------
(* LLM client: orchestrator/app/llm_client.py *)

\* the ids an OpenAI-compatible server gives its tool calls, in emission order
CallIds == <<"c1", "c2", "c3", "c4", "c5", "c6">>

\* the contents of the model's successive replies
ReplyTexts == <<"R1", "R2", "R3", "R4", "R5", "R6">>

\* the tool calls a model emits: a good call, an unregistered tool, arguments
\* that are no JSON, arguments the handler does not take, a call with no id,
\* arguments the handler's body fails on
CallTemplates ==
    { [name |-> "get_map", arguments |-> "{key: engine_params}", has_id |-> TRUE],
      [name |-> "does_not_exist", arguments |-> "{key: engine_params}", has_id |-> TRUE],
      [name |-> "get_map", arguments |-> "{key: ", has_id |-> TRUE],
      [name |-> "get_map", arguments |-> "{bogus: 1}", has_id |-> TRUE],
      [name |-> "get_map", arguments |-> "{key: engine_params}", has_id |-> FALSE],
      [name |-> "get_map", arguments |-> "{key: [1]}", has_id |-> TRUE] }

\* the tool-call dict of the wire format; the n-th call of the turn
ToolCallDict(template, n) ==
    [id |-> IF template.has_id THEN CallIds[n] ELSE Absent,
     function |-> [name |-> template.name, arguments |-> template.arguments]]

\* the tool_calls list of a response: templates f[1..k], numbered after the
\* `before` calls already emitted
ToolCallList(f, k, before) == [i \in 1..k |-> ToolCallDict(f[i], before + i)]

\* what LLMClient.chat_completion does on its g-th call of the turn: raise
\* (httpx.HTTPError), or return the server's JSON - with no choice, or with one
\* message: a reply with or without text, or a text with up to `room` tool calls
Completions(g, before, room) ==
    { [raises |-> TRUE, choices |-> <<>>], [raises |-> FALSE, choices |-> <<>>] }
    \cup
    { [raises |-> FALSE,
       choices |-> << [message |-> [content |-> c, tool_calls |-> <<>>]] >>] :
        c \in { <<ReplyTexts[g]>>, <<>> } }
    \cup
    { [raises |-> FALSE,
       choices |-> << [message |-> [content |-> <<ReplyTexts[g]>>,
                                   tool_calls |-> ToolCallList(f, k, before)]] >>] :
        k \in 1..room,
        f \in [1..room -> CallTemplates] }

---------------------------------------------------------------------------
(* The agent: orchestrator/app/langgraph_agent.py *)

\* the max_iterations values callers pass
IterationBudgets == (0 - 1)..MaxIter

\* process_request up to graph.ainvoke: message_dicts and initial_state
Init ==
    /\ initial \in InitialMessages
    /\ messages = initial
    /\ tool_calls = <<>>
    /\ current_step = "start"
    /\ max_iterations \in IterationBudgets
    /\ iteration_count = 0
    /\ node = "analyze"
    /\ raised = NoError
    /\ result = [keys |-> {}, response |-> <<>>, tool_calls |-> <<>>,
                 messages |-> <<>>, status |-> "<pending>"]
    /\ gen_calls = 0
    /\ gen_failed = FALSE
    /\ tool_cycles = 0
    /\ dispatched = <<>>
    /\ emitted = 0
    /\ retrieval = "none"
    /\ heard = <<>>
    /\ direct = Nothing
    /\ turn = "solo"
    /\ other = Nothing
    /\ solo = Nothing
    /\ registry = RegisteredTools
    /\ http = Nothing
    /\ fs = NoFiles

\* the graph runs its next node: no exception has ended the run
Running(n) == node = n /\ raised = NoError

\* _analyze_input
AnalyzeInput ==
    /\ Running("analyze")
    /\ current_step' = "analyzed"
    /\ iteration_count' = 0
    /\ node' = "retrieve"
    /\ UNCHANGED <<messages, tool_calls, max_iterations, raised, result,
                   history, outside>>

\* f"Context: {context}\n\nQuery: {last_message}"
Augmented(results, last_message) ==
    <<"Context: ">>
    \o Join(<<"\n">>, [i \in 1..Len(results) |-> results[i].text])
    \o <<"\n\nQuery: ">> \o last_message

\* _retrieve_context with no try around the search
RetrieveContextUncaught ==
    /\ Running("retrieve")
    /\ IF messages # <<>>
       THEN \E backend \in SearchBackends :
              /\ heard' = Append(heard, <<"search", backend>>)
              /\ IF SearchRaises(backend)
                 THEN /\ retrieval' = "raised"
                      /\ raised' = Just(<<"Search failed: ">>)
                      /\ UNCHANGED <<messages, current_step, node>>
                 ELSE LET results == search(backend) IN
                      /\ retrieval' = IF results # <<>> THEN "hit" ELSE "empty"
                      /\ messages' =
                           IF results # <<>>
                           THEN [messages EXCEPT ![Len(messages)].content =
                                    Augmented(results, Last(messages).content)]
                           ELSE messages
                      /\ current_step' = "context_retrieved"
                      /\ node' = "generate_response"
                      /\ UNCHANGED raised
       ELSE /\ current_step' = "context_retrieved"
            /\ node' = "generate_response"
            /\ UNCHANGED <<messages, retrieval, raised, heard>>
    /\ UNCHANGED <<tool_calls, max_iterations, iteration_count, result,
                   gen_calls, gen_failed, tool_cycles, dispatched, emitted,
                   initial, outside>>

\* _retrieve_context that writes the context block whatever the search found
RetrieveContextAlways ==
    /\ Running("retrieve")
    /\ IF messages # <<>>
       THEN \E backend \in SearchBackends :
              /\ heard' = Append(heard, <<"search", backend>>)
              /\ IF SearchRaises(backend)
                 THEN /\ retrieval' = "raised"
                      /\ UNCHANGED messages
                 ELSE LET results == search(backend) IN
                      /\ retrieval' = IF results # <<>> THEN "hit" ELSE "empty"
                      /\ messages' =
                           [messages EXCEPT ![Len(messages)].content =
                               Augmented(results, Last(messages).content)]
       ELSE UNCHANGED <<messages, retrieval, heard>>
    /\ current_step' = "context_retrieved"
    /\ node' = "generate_response"
    /\ UNCHANGED <<tool_calls, max_iterations, iteration_count, raised, result,
                   gen_calls, gen_failed, tool_cycles, dispatched, emitted,
                   initial, outside>>

\* _retrieve_context
RetrieveContext ==
    /\ Running("retrieve")
    /\ IF messages # <<>>
       THEN \E backend \in SearchBackends :
              /\ heard' = Append(heard, <<"search", backend>>)
              /\ IF SearchRaises(backend)
                 THEN /\ retrieval' = "raised"
                      /\ UNCHANGED messages
                 ELSE LET results == search(backend) IN
                      IF results # <<>>
                      THEN /\ retrieval' = "hit"
                           /\ messages' =
                                [messages EXCEPT ![Len(messages)].content =
                                    Augmented(results, Last(messages).content)]
                      ELSE /\ retrieval' = "empty"
                           /\ UNCHANGED messages
       ELSE UNCHANGED <<messages, retrieval, heard>>
    /\ current_step' = "context_retrieved"
    /\ node' = "generate_response"
    /\ UNCHANGED <<tool_calls, max_iterations, iteration_count, raised, result,
                   gen_calls, gen_failed, tool_cycles, dispatched, emitted,
                   initial, outside>>

\* the tools argument _generate_response passes to chat_completion: none,
\* the keyword is commented out
GenerationTools == Nothing

\* chat_completion's payload["tools"]: set only for a non-empty tools argument
PayloadTools(tools) ==
    IF tools # Nothing /\ tools[1] # <<>> THEN tools ELSE Nothing

\* str(e) of what the try block of _generate_response raised
GenerationError(response) ==
    IF response.raises THEN <<"LLM request failed: ", "connection refused">>
    ELSE <<"list index out of range">>

\* _generate_response whose except block appends no message
GenerateResponseSilent ==
    /\ Running("generate_response")
    /\ \E response \in Completions(gen_calls + 1, emitted, MaxCalls - emitted) :
         /\ gen_calls' = gen_calls + 1
         /\ heard' = Append(heard, <<"llm", response,
                                  PayloadTools(GenerationTools)>>)
         /\ IF response.raises \/ response.choices = <<>>
            THEN /\ current_step' = "error"
                 /\ gen_failed' = TRUE
                 /\ UNCHANGED <<messages, tool_calls, emitted>>
            ELSE LET message == response.choices[1].message IN
                 /\ messages' = Append(messages,
                        [role |-> "assistant", content |-> message.content,
                         tool_calls |-> message.tool_calls,
                         tool_call_id |-> Absent])
                 /\ tool_calls' = IF message.tool_calls # <<>>
                                  THEN message.tool_calls ELSE tool_calls
                 /\ current_step' = "response_generated"
                 /\ emitted' = emitted + Len(message.tool_calls)
                 /\ UNCHANGED gen_failed
    /\ node' = "should_use_tools"
    /\ UNCHANGED <<max_iterations, iteration_count, raised, result, tool_cycles,
                   dispatched, retrieval, initial, outside>>

\* _generate_response
GenerateResponse ==
    /\ Running("generate_response")
    /\ \E response \in Completions(gen_calls + 1, emitted, MaxCalls - emitted) :
         /\ gen_calls' = gen_calls + 1
         /\ heard' = Append(heard, <<"llm", response,
                                  PayloadTools(GenerationTools)>>)
         /\ IF response.raises \/ response.choices = <<>>
            THEN /\ messages' = Append(messages,
                        [role |-> "assistant",
                         content |-> <<"Error generating response: ">>
                                     \o GenerationError(response),
                         tool_calls |-> <<>>, tool_call_id |-> Absent])
                 /\ current_step' = "error"
                 /\ gen_failed' = TRUE
                 /\ UNCHANGED <<tool_calls, emitted>>
            ELSE LET message == response.choices[1].message IN
                 /\ messages' = Append(messages,
                        [role |-> "assistant", content |-> message.content,
                         tool_calls |-> message.tool_calls,
                         tool_call_id |-> Absent])
                 /\ tool_calls' = IF message.tool_calls # <<>>
                                  THEN message.tool_calls ELSE tool_calls
                 /\ current_step' = "response_generated"
                 /\ emitted' = emitted + Len(message.tool_calls)
                 /\ UNCHANGED gen_failed
    /\ node' = "should_use_tools"
    /\ UNCHANGED <<max_iterations, iteration_count, raised, result, tool_cycles,
                   dispatched, retrieval, initial, outside>>

\* _should_use_tools with the iteration budget left out
should_use_tools_unbounded ==
    IF tool_calls # <<>> THEN "tools" ELSE "finalize"

\* _should_use_tools comparing with <= : one tool step too many
should_use_tools_inclusive ==
    IF tool_calls # <<>> /\ iteration_count <= max_iterations
    THEN "tools" ELSE "finalize"

\* _should_use_tools
should_use_tools ==
    IF tool_calls # <<>> /\ iteration_count < max_iterations
    THEN "tools" ELSE "finalize"

\* the conditional edge, sending a failed generation back to generation
ShouldUseToolsRetry ==
    /\ Running("should_use_tools")
    /\ node' = IF current_step = "error" THEN "generate_response"
               ELSE IF should_use_tools = "tools" THEN "execute_tools"
               ELSE "finalize"
    /\ UNCHANGED <<state, raised, result, history, outside>>

\* the conditional edge after generate_response
ShouldUseTools ==
    /\ Running("should_use_tools")
    /\ node' = IF should_use_tools = "tools" THEN "execute_tools" ELSE "finalize"
    /\ UNCHANGED <<state, raised, result, history, outside>>

\* tool_call.get("id", "unknown")
GetId(tool_call) == IF tool_call.id = Absent THEN "unknown" ELSE tool_call.id

\* the try block of _execute_tools reaches tool_registry.execute_tool
Dispatches(tool_call) ==
    JsonValid(tool_call.function.arguments) /\ tool_call.id # Absent

\* str(e) of what the try block of _execute_tools raised before the dispatch
DispatchError(tool_call) ==
    IF ~JsonValid(tool_call.function.arguments)
    THEN <<"Expecting value: line 1 column 1 (char 0)">>
    ELSE <<"'id'">>

\* json.dumps(result.result) if result.result else result.error
ToolContent(r) ==
    IF Truthy(r.result) THEN JsonDumps(r.result[1])
    ELSE IF r.error # Nothing THEN r.error[1]
    ELSE NullContent

\* the tool message of a loop that serializes result.result whatever the error
ToolMessageResultOnly(tool_call) ==
    IF Dispatches(tool_call)
    THEN LET r == execute_tool(tool_call.function.name, tool_call.id,
                               JsonLoads(tool_call.function.arguments)) IN
         [role |-> "tool",
          content |-> IF r.result # Nothing THEN JsonDumps(r.result[1])
                      ELSE <<"null">>,
          tool_calls |-> <<>>,
          tool_call_id |-> tool_call.id]
    ELSE [role |-> "tool",
          content |-> <<"Tool execution error: ">> \o DispatchError(tool_call),
          tool_calls |-> <<>>,
          tool_call_id |-> GetId(tool_call)]

\* the tool message one pass of the loop of _execute_tools appends
ToolMessage(tool_call) ==
    IF Dispatches(tool_call)
    THEN LET r == execute_tool(tool_call.function.name, tool_call.id,
                               JsonLoads(tool_call.function.arguments)) IN
         [role |-> "tool",
          content |-> ToolContent(r),
          tool_calls |-> <<>>,
          tool_call_id |-> tool_call.id]
    ELSE [role |-> "tool",
          content |-> <<"Tool execution error: ">> \o DispatchError(tool_call),
          tool_calls |-> <<>>,
          tool_call_id |-> GetId(tool_call)]

\* the registry answers the call with an error, or the call never reaches it
FailingCall(tool_call) ==
    \/ tool_call.function.name \notin registry
    \/ ~JsonValid(tool_call.function.arguments)
    \/ ~BindsTo(tool_call.function.name, JsonLoads(tool_call.function.arguments))
    \/ HandlerRaises(tool_call.function.name,
                     JsonLoads(tool_call.function.arguments))

RECURSIVE RunToolCallsAbort(_, _)
\* the loop of _execute_tools, left at the first call that fails
RunToolCallsAbort(calls, msgs) ==
    IF calls = <<>> THEN msgs
    ELSE IF FailingCall(Head(calls)) THEN Append(msgs, ToolMessage(Head(calls)))
    ELSE RunToolCallsAbort(Tail(calls), Append(msgs, ToolMessage(Head(calls))))

RECURSIVE RunToolCallsPrepend(_, _)
\* the loop of _execute_tools, inserting each tool message at the front
RunToolCallsPrepend(calls, msgs) ==
    IF calls = <<>> THEN msgs
    ELSE RunToolCallsPrepend(Tail(calls), <<ToolMessage(Head(calls))>> \o msgs)

RECURSIVE RunToolCalls(_, _)
\* the loop of _execute_tools: one message per tool call, in list order
RunToolCalls(calls, msgs) ==
    IF calls = <<>> THEN msgs
    ELSE RunToolCalls(Tail(calls), Append(msgs, ToolMessage(Head(calls))))

RECURSIVE DispatchedIds(_)
\* the tool_call_ids the loop hands to execute_tool, in order
DispatchedIds(calls) ==
    IF calls = <<>> THEN <<>>
    ELSE (IF Dispatches(Head(calls)) THEN <<Head(calls).id>> ELSE <<>>)
         \o DispatchedIds(Tail(calls))

\* _execute_tools that does not count the iteration
ExecuteToolsUncounted ==
    /\ Running("execute_tools")
    /\ messages' = RunToolCalls(tool_calls, messages)
    /\ tool_calls' = <<>>
    /\ current_step' = "tools_executed"
    /\ node' = "generate_response"
    /\ tool_cycles' = tool_cycles + 1
    /\ dispatched' = dispatched \o DispatchedIds(tool_calls)
    /\ UNCHANGED <<max_iterations, iteration_count, raised, result, gen_calls,
                   gen_failed, emitted, retrieval, initial, heard, outside>>

\* _execute_tools that leaves the executed tool calls pending
ExecuteToolsUncleared ==
    /\ Running("execute_tools")
    /\ messages' = RunToolCalls(tool_calls, messages)
    /\ iteration_count' = iteration_count + 1
    /\ current_step' = "tools_executed"
    /\ node' = "generate_response"
    /\ tool_cycles' = tool_cycles + 1
    /\ dispatched' = dispatched \o DispatchedIds(tool_calls)
    /\ UNCHANGED <<tool_calls, max_iterations, raised, result, gen_calls,
                   gen_failed, emitted, retrieval, initial, heard, outside>>

\* _execute_tools
ExecuteTools ==
    /\ Running("execute_tools")
    /\ messages' = RunToolCalls(tool_calls, messages)
    /\ tool_calls' = <<>>
    /\ iteration_count' = iteration_count + 1
    /\ current_step' = "tools_executed"
    /\ node' = "generate_response"
    /\ tool_cycles' = tool_cycles + 1
    /\ dispatched' = dispatched \o DispatchedIds(tool_calls)
    /\ UNCHANGED <<max_iterations, raised, result, gen_calls, gen_failed,
                   emitted, retrieval, initial, heard, outside>>

\* _finalize_response
FinalizeResponse ==
    /\ Running("finalize")
    /\ current_step' = "completed"
    /\ node' = "END"
    /\ UNCHANGED <<messages, tool_calls, max_iterations, iteration_count,
                   raised, result, history, outside>>

\* [msg for msg in final_messages if msg["role"] == "assistant"]
AiMessages(final_messages) ==
    SelectSeq(final_messages, LAMBDA msg : msg.role = "assistant")

\* the try block's returns, the success one without its tool_calls entry
ExtractTextOnly(final_messages) ==
    LET ai_messages == AiMessages(final_messages) IN
    IF ai_messages # <<>>
    THEN [keys |-> {"response", "messages", "status"},
          response |-> Last(ai_messages).content,
          tool_calls |-> <<>>,
          messages |-> final_messages,
          status |-> "success"]
    ELSE [keys |-> {"response", "messages", "status"},
          response |-> <<"No response generated">>,
          tool_calls |-> <<>>,
          messages |-> final_messages,
          status |-> "error"]

\* the try block's returns, taking the first assistant message
ExtractFirst(final_messages) ==
    LET ai_messages == AiMessages(final_messages) IN
    IF ai_messages # <<>>
    THEN [keys |-> {"response", "tool_calls", "messages", "status"},
          response |-> Head(ai_messages).content,
          tool_calls |-> Head(ai_messages).tool_calls,
          messages |-> final_messages,
          status |-> "success"]
    ELSE [keys |-> {"response", "messages", "status"},
          response |-> <<"No response generated">>,
          tool_calls |-> <<>>,
          messages |-> final_messages,
          status |-> "error"]

\* what process_request returns once graph.ainvoke returned final_state
Extract(final_messages) ==
    LET ai_messages == AiMessages(final_messages) IN
    IF ai_messages # <<>>
    THEN [keys |-> {"response", "tool_calls", "messages", "status"},
          response |-> Last(ai_messages).content,
          tool_calls |-> Last(ai_messages).tool_calls,
          messages |-> final_messages,
          status |-> "success"]
    ELSE [keys |-> {"response", "messages", "status"},
          response |-> <<"No response generated">>,
          tool_calls |-> <<>>,
          messages |-> final_messages,
          status |-> "error"]

\* what process_request returns once graph.ainvoke raised e
Failed(e, message_dicts) ==
    [keys |-> {"response", "messages", "status"},
     response |-> <<"Agent processing failed: ">> \o e,
     tool_calls |-> <<>>,
     messages |-> message_dicts,
     status |-> "error"]

\* process_request with no except block: the exception reaches the caller
ProcessRequestReturnUncaught ==
    /\ node # "returned"
    /\ node = "END" \/ raised # NoError
    /\ IF raised = NoError
       THEN result' = Extract(messages)
       ELSE result' = [keys |-> {}, response |-> <<>>, tool_calls |-> <<>>,
                       messages |-> <<>>, status |-> "<exception>"]
    /\ node' = "returned"
    /\ UNCHANGED <<state, raised, history, outside>>

\* process_request after graph.ainvoke: the try block's returns and the except
\* block's.  message_dicts holds the very dicts the nodes changed in place;
\* whether it is also the list they appended to is the graph library's affair.
ProcessRequestReturn ==
    /\ node # "returned"
    /\ node = "END" \/ raised # NoError
    /\ IF raised = NoError
       THEN result' = Extract(messages)
       ELSE \E message_dicts \in {messages, SubSeq(messages, 1, Len(initial))} :
              result' = Failed(raised[1], message_dicts)
    /\ node' = "returned"
    /\ UNCHANGED <<state, raised, history, outside>>

Next ==
    \/ AnalyzeInput
    \/ RetrieveContext
    \/ GenerateResponse
    \/ ShouldUseTools
    \/ ExecuteTools
    \/ FinalizeResponse
    \/ ProcessRequestReturn

Spec == Init /\ [][Next]_vars

\* the event loop runs every node that is ready: a turn is never left waiting
LiveSpec == Spec /\ WF_vars(Next)

\* graph.ainvoke raises: a fault inside the graph run, at any node
GraphRaises ==
    /\ node \notin {"END", "returned"}
    /\ raised = NoError
    /\ raised' = Just(<<"graph fault">>)
    /\ UNCHANGED <<state, node, result, history, outside>>

NextFaulty == Next \/ GraphRaises

\* turns whose graph run may raise
SpecFaulty == Init /\ [][NextFaulty]_vars

---------------------------------------------------------------------------
(* The result extraction of process_request, on any final message sequence *)

\* the entries a final message sequence is made of
FinalEntries ==
    { MessageDict("system", <<"Be brief">>),
      MessageDict("user", <<"Hello">>),
      MessageDict("assistant", <<"Earlier">>),
      [role |-> "assistant", content |-> <<"Later">>,
       tool_calls |-> << ToolCallDict([name |-> "get_map",
                                       arguments |-> "{key: engine_params}",
                                       has_id |-> TRUE], 1) >>,
       tool_call_id |-> Absent],
      [role |-> "tool", content |-> <<"{}">>, tool_calls |-> <<>>,
       tool_call_id |-> "c1"] }

\* final_state["messages"]: any sequence of up to MaxFinal entries
FinalSequences == UNION { [1..n -> FinalEntries] : n \in 0..MaxFinal }

\* graph.ainvoke has returned a final state holding any message sequence
ExtractInit ==
    /\ messages \in FinalSequences
    /\ initial = <<>>
    /\ tool_calls = <<>>
    /\ current_step = "completed"
    /\ max_iterations = 0
    /\ iteration_count = 0
    /\ node = "END"
    /\ raised = NoError
    /\ result = [keys |-> {}, response |-> <<>>, tool_calls |-> <<>>,
                 messages |-> <<>>, status |-> "<pending>"]
    /\ gen_calls = 0
    /\ gen_failed = FALSE
    /\ tool_cycles = 0
    /\ dispatched = <<>>
    /\ emitted = 0
    /\ retrieval = "none"
    /\ heard = <<>>
    /\ direct = Nothing
    /\ turn = "solo"
    /\ other = Nothing
    /\ solo = Nothing
    /\ registry = RegisteredTools
    /\ http = Nothing
    /\ fs = NoFiles

ExtractSpec == ExtractInit /\ [][ProcessRequestReturn]_vars

---------------------------------------------------------------------------
(* The tool registry called directly, as POST /tools/execute does *)

\* tool names a caller asks for: the registered ones and two that are not
ToolNames == RegisteredTools \cup {"does_not_exist", "GET_MAP"}

\* the argument mappings a caller sends
ArgumentMappings ==
    { [key |-> "engine_params"], [key |-> "no_such_key"], [key |-> ListValue],
      [bogus |-> "1"], [key |-> "engine_params", bogus |-> "1"],
      [repo |-> "r", patch |-> "p"], [pattern |-> "ERROR"],
      [project_path |-> "."], [operation |-> "exists", path |-> "/tmp/x"] }

\* the tool_call_ids a caller sends; "direct_call" is the endpoint's default
DirectCallIds == {"direct_call", "c1"}

\* no turn is running
RegistryInit ==
    /\ Init
    /\ initial = <<>>
    /\ max_iterations = 0

\* execute_tool that registers the name it was asked for
ExecuteToolDirectRegistering ==
    /\ \E tool_name \in ToolNames, tool_call_id \in DirectCallIds,
          arguments \in ArgumentMappings :
          /\ direct' = Just([tool_name |-> tool_name,
                             tool_call_id |-> tool_call_id,
                             arguments |-> arguments,
                             handlers |-> HandlerCalls(tool_name, arguments),
                             response |-> execute_tool(tool_name, tool_call_id,
                                                       arguments)])
          /\ registry' = registry \cup {tool_name}
    /\ UNCHANGED <<state, node, raised, result, history, turn, other, solo,
                   world>>

\* one call of ToolRegistry.execute_tool from outside a turn
ExecuteToolDirect ==
    /\ \E tool_name \in ToolNames, tool_call_id \in DirectCallIds,
          arguments \in ArgumentMappings :
          direct' = Just([tool_name |-> tool_name,
                          tool_call_id |-> tool_call_id,
                          arguments |-> arguments,
                          handlers |-> HandlerCalls(tool_name, arguments),
                          response |-> execute_tool(tool_name, tool_call_id,
                                                    arguments)])
    /\ UNCHANGED <<state, node, raised, result, history, turn, other, solo,
                   registry, world>>

RegistrySpec == RegistryInit /\ [][ExecuteToolDirect]_vars

---------------------------------------------------------------------------
(* The tool message of _execute_tools, for any ToolResponse of a registry *)

\* the mappings a tool handler returns: the empty one, get_map's, the mocks'
HandlerResults ==
    { <<>>,
      get_map("engine_params"), get_map("boost_target"), get_map("no_such_key"),
      << <<"files", "[]">>, <<"count", "0">> >>,
      << <<"error", "Unknown operation: x">> >>,
      << <<"tool", "apply_patch">>, <<"status", "ok">> >>,
      << <<"tool", "search_logs">>, <<"status", "ok">> >>,
      << <<"tool", "run_tests">>, <<"status", "ok">> >> }

\* the error texts execute_tool sets
ErrorTexts ==
    { <<"Unknown tool: ", "does_not_exist">>,
      <<"Unknown tool: ", "GET_MAP">>,
      <<"get_map", "() got an unexpected keyword argument">>,
      <<"apply_patch", "() got an unexpected keyword argument">>,
      <<"file_operations", "() got an unexpected keyword argument">>,
      <<"unhashable type: 'list'">> }

\* the ToolResponses of execute_tool: a result or an error
ToolResponses ==
    { [tool_call_id |-> id, result |-> Just(r), error |-> Nothing] :
        id \in {CallIds[n] : n \in 1..Len(CallIds)} \cup {"direct_call"},
        r \in HandlerResults }
    \cup
    { [tool_call_id |-> id, result |-> Nothing, error |-> Just(e)] :
        id \in {CallIds[n] : n \in 1..Len(CallIds)} \cup {"direct_call"},
        e \in ErrorTexts }

\* the body of the loop of _execute_tools after execute_tool returned r
FoldToolResponse ==
    /\ messages = <<>>
    /\ \E r \in ToolResponses :
          /\ messages' = << [role |-> "tool", content |-> ToolContent(r),
                             tool_calls |-> <<>>,
                             tool_call_id |-> r.tool_call_id] >>
          /\ direct' = Just([tool_name |-> "<handler>",
                             tool_call_id |-> r.tool_call_id,
                             arguments |-> <<>>,
                             handlers |-> <<"<handler>">>,
                             response |-> r])
    /\ UNCHANGED <<tool_calls, current_step, max_iterations, iteration_count,
                   node, raised, result, history, turn, other, solo, registry,
                   world>>

ToolMessageSpec == RegistryInit /\ [][FoldToolResponse]_vars

---------------------------------------------------------------------------
(* The HTTP API of orchestrator/app/main.py, the agent initialized *)

\* what GET {base_url}/models of the LLM server does: the request fails, or
\* the server answers with a status code
ModelsProbes ==
    { [fails |-> TRUE, status_code |-> 0] }
    \cup { [fails |-> FALSE, status_code |-> c] :
             c \in {200, 201, 204, 301, 401, 404, 500, 503} }

\* what qdrant_client.get_collections does: it raises or it returns
CollectionsProbes == { [fails |-> TRUE], [fails |-> FALSE] }

\* LLMClient.health_check with no try: [raised, value]
llm_health_check_uncaught(probe) ==
    [raised |-> probe.fails,
     value |-> ~probe.fails /\ probe.status_code = 200]

\* LLMClient.health_check: [raised, value]
llm_health_check(probe) ==
    [raised |-> FALSE,
     value |-> ~probe.fails /\ probe.status_code = 200]

\* VectorStore.health_check: [raised, value]
vector_health_check(probe) ==
    [raised |-> FALSE, value |-> ~probe.fails]

\* GET /health
Health ==
    /\ \E models \in ModelsProbes, collections \in CollectionsProbes :
          LET llm == llm_health_check(models)
              vector_store == vector_health_check(collections) IN
          http' = Just(
            [endpoint |-> "/health",
             request |-> [models |-> models, collections |-> collections],
             agent_calls |-> <<"health_check">>,
             status_code |-> IF llm.raised \/ vector_store.raised
                             THEN 500 ELSE 200,
             body |-> IF llm.raised \/ vector_store.raised
                      THEN [detail |-> <<"Internal Server Error">>]
                      ELSE [status |-> IF llm.value /\ vector_store.value
                                       THEN "healthy" ELSE "unhealthy",
                            components |-> [llm |-> llm.value,
                                            vector_store |-> vector_store.value]]])
    /\ UNCHANGED <<state, node, raised, result, history, direct, turn, other,
                   solo, registry, fs>>

\* str(e) of an HTTPException: "<status>: <detail>", or nothing where the
\* framework's exception passes no argument to Exception
HttpExceptionTexts(status_code, detail) ==
    { <<status_code, ": ", detail>>, <<>> }

\* the texts of the "message" field of a POST /chat body; Absent: no field
ChatMessageFields == { Absent, "", "Hello", "What is the engine status?" }

\* what agent.process_request returns to POST /chat
ChatResults ==
    { [response |-> <<"R1">>, status |-> "success"],
      [response |-> <<"Error generating response: ", "list index out of range">>,
       status |-> "success"],
      [response |-> <<"Agent processing failed: ", "graph fault">>,
       status |-> "error"] }

\* POST /chat
SimpleChat ==
    /\ \E field \in ChatMessageFields :
          LET message == IF field = Absent THEN "" ELSE field IN
          IF message = ""
          THEN \E text \in HttpExceptionTexts("400", "Message is required") :
                 http' = Just(
                   [endpoint |-> "/chat",
                    request |-> [message |-> field],
                    agent_calls |-> <<>>,
                    status_code |-> 500,
                    body |-> [detail |-> <<"Chat failed: ">> \o text]])
          ELSE \E chat_result \in ChatResults :
                 http' = Just(
                   [endpoint |-> "/chat",
                    request |-> [message |-> field],
                    agent_calls |-> <<"process_request">>,
                    status_code |-> 200,
                    body |-> chat_result])
    /\ UNCHANGED <<state, node, raised, result, history, direct, turn, other,
                   solo, registry, fs>>

\* the "tool_name" field of a POST /tools/execute body; Absent: no field
ToolNameFields == ToolNames \cup {Absent, ""}

\* POST /tools/execute
ExecuteToolEndpoint ==
    /\ \E field \in ToolNameFields, arguments \in ArgumentMappings,
          id_field \in {Absent, "c1"} :
          LET tool_call_id == IF id_field = Absent THEN "direct_call"
                              ELSE id_field IN
          IF field = Absent \/ field = ""
          THEN \E text \in HttpExceptionTexts("400", "tool_name is required") :
                 http' = Just(
                   [endpoint |-> "/tools/execute",
                    request |-> [tool_name |-> field, arguments |-> arguments,
                                 tool_call_id |-> id_field],
                    agent_calls |-> <<>>,
                    status_code |-> 500,
                    body |-> [detail |-> <<"Tool execution failed: ">> \o text]])
          ELSE http' = Just(
                   [endpoint |-> "/tools/execute",
                    request |-> [tool_name |-> field, arguments |-> arguments,
                                 tool_call_id |-> id_field],
                    agent_calls |-> <<"execute_tool">>,
                    status_code |-> 200,
                    body |-> execute_tool(field, tool_call_id, arguments)])
    /\ UNCHANGED <<state, node, raised, result, history, direct, turn, other,
                   solo, registry, fs>>

HttpNext ==
    \/ Health
    \/ SimpleChat
    \/ ExecuteToolEndpoint

HttpSpec == RegistryInit /\ [][HttpNext]_vars

---------------------------------------------------------------------------
(* ToolRegistry.file_operations on a file system *)

\* the directory a path lies in; "/" and "/none" are not paths of the model:
\* the first always exists, the second never
Parent(path) ==
    CASE path = "/d" -> "/"
      [] path = "/d/a" -> "/d"
      [] path = "/d/b" -> "/d"
      [] path = "/none/c" -> "/none"

\* the parent of the path is a directory
ParentIsDirectory(files, path) ==
    \/ Parent(path) = "/"
    \/ Parent(path) \in Paths /\ files[Parent(path)] = Directory

\* a text the file's encoding cannot encode: a lone surrogate
Unencodable == "\\ud800"

\* the file systems file_operations is run on: "/d" a directory holding none,
\* one or both of its entries, "/d" a file, or nothing at all
InitialFiles ==
    { [NoFiles EXCEPT !["/d"] = Directory, !["/d/a"] = a, !["/d/b"] = b] :
        a \in {Missing, "old"}, b \in {Missing, "old"} }
    \cup { [NoFiles EXCEPT !["/d"] = "old"], NoFiles }

\* Path.exists
Exists(files, path) == files[path] # Missing

\* open(path_obj, 'r') or open(path_obj, 'w') raises
OpenRaises(files, path, mode) ==
    \/ files[path] = Directory
    \/ mode = "w" /\ ~ParentIsDirectory(files, path)

\* Path.unlink raises: the path holds a directory
UnlinkRaises(files, path) == files[path] = Directory

\* the mapping file_operations returns; a text is its string, a number or a
\* list the word for it
file_operations(files, operation, path, content) ==
    IF operation = "read"
    THEN IF ~Exists(files, path)
         THEN << <<"error", "File not found: " \o path>> >>
         ELSE IF OpenRaises(files, path, "r")
         THEN << <<"error", "[Errno 21] Is a directory: " \o path>> >>
         ELSE << <<"content", files[path]>>, <<"size", "<size>">> >>
    ELSE IF operation = "write"
    THEN IF content = Absent
         THEN << <<"error", "Content required for write operation">> >>
         ELSE IF OpenRaises(files, path, "w")
         THEN << <<"error", "[Errno] cannot open: " \o path>> >>
         ELSE IF content = Unencodable
         THEN << <<"error", "'utf-8' codec can't encode character">> >>
         ELSE << <<"message", "File written: " \o path>>, <<"size", "<len>">> >>
    ELSE IF operation = "list"
    THEN IF ~Exists(files, path)
         THEN << <<"error", "Path not found: " \o path>> >>
         ELSE IF files[path] = Directory
         THEN << <<"files", "<names>">>, <<"count", "<count>">> >>
         ELSE << <<"error", "Path is not a directory">> >>
    ELSE IF operation = "delete"
    THEN IF ~Exists(files, path)
         THEN << <<"error", "File not found: " \o path>> >>
         ELSE IF UnlinkRaises(files, path)
         THEN << <<"error", "[Errno 21] Is a directory: " \o path>> >>
         ELSE << <<"message", "File deleted: " \o path>> >>
    ELSE << <<"error", "Unknown operation: " \o operation>> >>

\* the file system file_operations leaves: open(path_obj, 'w') creates or
\* empties the file before f.write is tried
FilesAfter(files, operation, path, content) ==
    IF operation = "write" /\ content # Absent
       /\ ~OpenRaises(files, path, "w")
    THEN [files EXCEPT ![path] = IF content = Unencodable THEN "" ELSE content]
    ELSE IF operation = "delete" /\ Exists(files, path)
            /\ ~UnlinkRaises(files, path)
    THEN [files EXCEPT ![path] = Missing]
    ELSE files

\* the operations, paths and contents callers give file_operations
FileOperationNames == {"read", "write", "list", "delete", "rename"}
FileContents == {Absent, "", "new", Unencodable}

\* the file system is populated from outside
Populate ==
    /\ direct = Nothing
    /\ fs = NoFiles
    /\ fs' \in InitialFiles \ {NoFiles}
    /\ UNCHANGED <<state, node, raised, result, history, direct, turn, other,
                   solo, registry, http>>

\* one call of file_operations through execute_tool
FileOperations ==
    /\ \E operation \in FileOperationNames, path \in Paths,
          content \in FileContents :
          /\ direct' = Just(
                [tool_name |-> "file_operations",
                 tool_call_id |-> "direct_call",
                 arguments |-> [operation |-> operation, path |-> path,
                                content |-> content],
                 handlers |-> <<"file_operations">>,
                 response |-> [tool_call_id |-> "direct_call",
                               result |-> Just(file_operations(fs, operation,
                                                               path, content)),
                               error |-> Nothing]])
          /\ fs' = FilesAfter(fs, operation, path, content)
    /\ UNCHANGED <<state, node, raised, result, history, turn, other, solo,
                   registry, http>>

FileNext ==
    \/ Populate
    \/ FileOperations

FileSpec == RegistryInit /\ [][FileNext]_vars

---------------------------------------------------------------------------
(* Two concurrent turns on the one agent of main.py.  The agent object is   *)
(* written by its constructor only; what a turn works on is the state dict  *)
(* and the locals of its own process_request coroutine.  The turn of the    *)
(* running coroutine is in the variables of the turn; the event loop        *)
(* suspends it at an await and resumes the other one.                       *)

\* the state dict, the locals and the history of the running coroutine
Suspended ==
    [messages |-> messages, tool_calls |-> tool_calls,
     current_step |-> current_step, max_iterations |-> max_iterations,
     iteration_count |-> iteration_count, node |-> node, raised |-> raised,
     result |-> result, gen_calls |-> gen_calls, gen_failed |-> gen_failed,
     tool_cycles |-> tool_cycles, dispatched |-> dispatched,
     emitted |-> emitted, retrieval |-> retrieval, initial |-> initial,
     heard |-> heard]

\* the coroutine of turn t goes on where it was suspended
Resume(t) ==
    /\ messages' = t.messages
    /\ tool_calls' = t.tool_calls
    /\ current_step' = t.current_step
    /\ max_iterations' = t.max_iterations
    /\ iteration_count' = t.iteration_count
    /\ node' = t.node
    /\ raised' = t.raised
    /\ result' = t.result
    /\ gen_calls' = t.gen_calls
    /\ gen_failed' = t.gen_failed
    /\ tool_cycles' = t.tool_cycles
    /\ dispatched' = t.dispatched
    /\ emitted' = t.emitted
    /\ retrieval' = t.retrieval
    /\ initial' = t.initial
    /\ heard' = t.heard

\* process_request up to graph.ainvoke, for a new coroutine
FreshTurn(message_dicts, budget) ==
    [messages |-> message_dicts, tool_calls |-> <<>>,
     current_step |-> "start", max_iterations |-> budget,
     iteration_count |-> 0, node |-> "analyze", raised |-> NoError,
     result |-> [keys |-> {}, response |-> <<>>, tool_calls |-> <<>>,
                 messages |-> <<>>, status |-> "<pending>"],
     gen_calls |-> 0, gen_failed |-> FALSE, tool_cycles |-> 0,
     dispatched |-> <<>>, emitted |-> 0, retrieval |-> "none",
     initial |-> message_dicts, heard |-> <<>>]

\* the requests of the turn that is run alone and again as turn "a"
PairRequests ==
    { << MessageDict("user", <<"Hello">>) >>,
      << MessageDict("system", <<"Be brief">>), MessageDict("user", <<"Hello">>) >> }

\* the request of turn "b"
ConcurrentRequest ==
    << MessageDict("system", <<"Be brief">>), MessageDict("user", <<"Hello">>) >>

\* the collaborators' answers to the concurrent turns: any search outcome; a
\* completion that fails, or carries at most one tool call, a good one or one
\* for an unregistered tool
Scripted(answers) ==
    \A i \in 1..Len(answers) :
        answers[i][1] = "llm" =>
            \/ answers[i][2].raises
            \/ answers[i][2].choices = <<>>
            \/ LET calls == answers[i][2].choices[1].message.tool_calls IN
               /\ Len(calls) <= 1
               /\ \A k \in 1..Len(calls) :
                     /\ calls[k].id # Absent
                     /\ calls[k].function.arguments = "{key: engine_params}"

IsPrefix(s, t) == Len(s) <= Len(t) /\ SubSeq(t, 1, Len(s)) = s

\* one request alone on the agent
PairInit ==
    /\ Init
    /\ initial \in PairRequests
    /\ max_iterations = 1

\* a node of the turn that runs alone
SoloStep ==
    /\ turn = "solo"
    /\ Next
    /\ Scripted(heard')

\* the same request again as turn "a", concurrently with a turn "b"
StartPair ==
    /\ turn = "solo"
    /\ node = "returned"
    /\ solo' = Just([heard |-> heard, result |-> result])
    /\ turn' = "a"
    /\ Resume(FreshTurn(initial, max_iterations))
    /\ other' = Just(FreshTurn(ConcurrentRequest, max_iterations))
    /\ UNCHANGED <<direct, registry, world>>

\* a node of the running one of the two turns; the collaborators answer
\* turn "a" as they answered the turn that ran alone
PairStep ==
    /\ turn \in {"a", "b"}
    /\ Next
    /\ turn = "a" => IsPrefix(heard', solo[1].heard)
    /\ turn = "b" => Scripted(heard')

\* a switch that leaves the pending tool calls where they are, as if the agent
\* object held them
SwitchTurnSharedCalls ==
    /\ turn \in {"a", "b"}
    /\ other[1].node # "returned"
    /\ other' = Just(Suspended)
    /\ turn' = IF turn = "a" THEN "b" ELSE "a"
    /\ messages' = other[1].messages
    /\ current_step' = other[1].current_step
    /\ max_iterations' = other[1].max_iterations
    /\ iteration_count' = other[1].iteration_count
    /\ node' = other[1].node
    /\ raised' = other[1].raised
    /\ result' = other[1].result
    /\ gen_calls' = other[1].gen_calls
    /\ gen_failed' = other[1].gen_failed
    /\ tool_cycles' = other[1].tool_cycles
    /\ dispatched' = other[1].dispatched
    /\ emitted' = other[1].emitted
    /\ retrieval' = other[1].retrieval
    /\ initial' = other[1].initial
    /\ heard' = other[1].heard
    /\ UNCHANGED <<tool_calls, direct, solo, registry, world>>

\* the event loop suspends the running coroutine at an await of its graph run
\* and resumes the other one
SwitchTurn ==
    /\ turn \in {"a", "b"}
    /\ other[1].node # "returned"
    /\ other' = Just(Suspended)
    /\ turn' = IF turn = "a" THEN "b" ELSE "a"
    /\ Resume(other[1])
    /\ UNCHANGED <<direct, solo, registry, world>>

PairNext ==
    \/ SoloStep
    \/ StartPair
    \/ PairStep
    \/ SwitchTurn

PairSpec == PairInit /\ [][PairNext]_vars

---------------------------------------------------------------------------
(* Properties of a turn *)

Max(a, b) == IF a >= b THEN a ELSE b

\* the index of the nearest assistant message before position i, or 0
RECURSIVE PrecedingAssistant(_, _)
PrecedingAssistant(msgs, i) ==
    IF i <= 1 THEN 0
    ELSE IF msgs[i - 1].role = "assistant" THEN i - 1
    ELSE PrecedingAssistant(msgs, i - 1)

\* the ids of the tool calls a message carries
CallIdsOf(msg) == { msg.tool_calls[k].id : k \in 1..Len(msg.tool_calls) }

\* the turn is over: process_request has returned
Returned == node = "returned"

\* C1 as stated: the turn makes at most max_iterations tool cycles and at most
\* max_iterations + 1 generation calls.
C1_BoundsAsStated ==
    Returned =>
        /\ tool_cycles <= max_iterations
        /\ gen_calls <= max_iterations + 1

\* C1, amended: every turn reaches the completed step, after at most
\* max(max_iterations, 0) tool cycles and max(max_iterations, 0) + 1
\* generation calls, whatever the model, the retriever and the tools answer.
C1_Terminates ==
    /\ <>(current_step = "completed")
    /\ [](/\ tool_cycles <= Max(max_iterations, 0)
          /\ gen_calls <= Max(max_iterations, 0) + 1)

\* C1 witness: the budget is used up and the model still asks for tools.
C1_Witness ==
    /\ current_step = "completed"
    /\ max_iterations >= 1
    /\ tool_cycles = max_iterations
    /\ gen_calls = max_iterations + 1
    /\ tool_calls # <<>>

\* C2: iteration_count starts at 0, each tool-execution step adds exactly 1 to
\* it, no other step changes it, and 0 <= iteration_count <= max_iterations
\* whenever max_iterations >= 0.
C2_IterationCount ==
    /\ iteration_count = 0
    /\ [][iteration_count' =
             IF node = "execute_tools" THEN iteration_count + 1
             ELSE iteration_count]_vars
    /\ [](max_iterations >= 0 =>
             (0 <= iteration_count /\ iteration_count <= max_iterations))

\* C2 witness: two tool steps have run and the count is at the budget.
C2_Witness ==
    /\ node = "generate_response"
    /\ tool_cycles = 2
    /\ iteration_count = 2
    /\ max_iterations = 2

\* C3: after a generation step the graph goes to execute_tools exactly when the
\* last assistant message carries a tool call and iteration_count <
\* max_iterations, and to finalize otherwise, a failed generation included.
C3_Branch ==
    [][node = "should_use_tools" =>
         /\ Last(messages).role = "assistant"
         /\ node' = IF /\ Last(messages).tool_calls # <<>>
                        /\ iteration_count < max_iterations
                     THEN "execute_tools" ELSE "finalize"
         /\ (current_step = "error" => node' = "finalize")]_vars

\* C3 witness: the tools branch is taken a second time in one turn.
C3_Witness ==
    /\ node = "execute_tools"
    /\ iteration_count = 1
    /\ Last(messages).tool_calls # <<>>

\* C4: a turn in which a generation call failed returns status error.
C4_FailedGenerationIsError ==
    (Returned /\ gen_failed) => result.status = "error"

\* C5: the generation step that fails appends exactly one assistant message
\* carrying the error text; after it the turn makes no generation call and no
\* tool dispatch, and it reaches the completed step.
C5_FailureIsTerminal ==
    /\ [][(~gen_failed /\ gen_failed') =>
             /\ Len(messages') = Len(messages) + 1
             /\ SubSeq(messages', 1, Len(messages)) = messages
             /\ Last(messages').role = "assistant"
             /\ Head(Last(messages').content) = "Error generating response: "]_vars
    /\ [][gen_failed =>
             /\ gen_calls' = gen_calls
             /\ tool_cycles' = tool_cycles
             /\ dispatched' = dispatched
             /\ messages' = messages]_vars
    /\ [][(gen_failed /\ node = "should_use_tools") => node' = "finalize"]_vars
    /\ [][(gen_failed /\ node = "finalize") =>
             (current_step' = "completed" /\ node' = "END")]_vars

\* C5 witness: a generation fails after a tool cycle and the turn completes.
C5_Witness ==
    /\ gen_failed
    /\ tool_cycles >= 1
    /\ current_step = "completed"

C7_RetrievalFailureAbsorbed ==
    (retrieval = "raised" /\ Returned) =>
        /\ gen_calls >= 1
        /\ current_step = "completed"
        /\ (~gen_failed => result.status = "success")

\* C7 witness: the retriever raised, the model answered, the turn succeeded.
C7_Witness ==
    /\ retrieval = "raised"
    /\ Returned
    /\ ~gen_failed
    /\ result.status = "success"
    /\ result.response = <<"R1">>

\* C8: every tool message carries the id of a tool call of the nearest
\* assistant message before it.
C8_ToolIdsMatch ==
    \A i \in 1..Len(messages) :
        messages[i].role = "tool" =>
            LET j == PrecedingAssistant(messages, i) IN
            /\ j > 0
            /\ messages[i].tool_call_id \in CallIdsOf(messages[j])

\* C9: a tool step with n pending calls appends exactly n tool messages, the
\* k-th carrying the id of the k-th call.
C9_OneMessagePerCallInOrder ==
    [][node = "execute_tools" =>
         /\ Len(messages') = Len(messages) + Len(tool_calls)
         /\ \A k \in 1..Len(tool_calls) :
               /\ messages'[Len(messages) + k].role = "tool"
               /\ messages'[Len(messages) + k].tool_call_id = tool_calls[k].id]_vars

\* the turn ran a tool step on a batch holding a failing call
RanFailingCall ==
    \E i \in 1..Len(messages) :
        /\ messages[i].role = "assistant"
        /\ i < Len(messages)
        /\ messages[i + 1].role = "tool"
        /\ \E k \in 1..Len(messages[i].tool_calls) :
              FailingCall(messages[i].tool_calls[k])

\* C10: a failing call (unknown tool, bad arguments, a fault in the tool) does
\* not abort its batch or the loop: every call of the batch gets its message
\* and every call fit for dispatch is dispatched, the step clears the pending
\* calls, adds 1 to iteration_count and goes back to generation, and the turn
\* returns success when no generation fails afterwards.
C10_FailingCallDoesNotAbort ==
    /\ [][(/\ node = "execute_tools"
            /\ \E k \in 1..Len(tool_calls) : FailingCall(tool_calls[k])) =>
             /\ Len(messages') = Len(messages) + Len(tool_calls)
             /\ \A k \in 1..Len(tool_calls) :
                   /\ messages'[Len(messages) + k].role = "tool"
                   /\ (Dispatches(tool_calls[k]) =>
                         \E d \in 1..Len(dispatched') :
                             dispatched'[d] = tool_calls[k].id)
             /\ tool_calls' = <<>>
             /\ iteration_count' = iteration_count + 1
             /\ node' = "generate_response"]_vars
    /\ []((Returned /\ RanFailingCall /\ ~gen_failed) =>
             result.status = "success")

\* C10 witness: a batch whose first call fails and whose second is dispatched,
\* in a turn that then returns success.
C10_Witness ==
    /\ Returned
    /\ ~gen_failed
    /\ result.status = "success"
    /\ \E i \in 1..Len(messages) :
          /\ messages[i].role = "assistant"
          /\ Len(messages[i].tool_calls) = 2
          /\ FailingCall(messages[i].tool_calls[1])
          /\ ~FailingCall(messages[i].tool_calls[2])
          /\ Len(messages) >= i + 2
          /\ messages[i + 2].role = "tool"
          /\ messages[i].tool_calls[2].id \in
                { dispatched[d] : d \in 1..Len(dispatched) }

\* the ids the turn has handed to the registry
DispatchedSet == { dispatched[d] : d \in 1..Len(dispatched) }

\* C11: each emitted tool call is dispatched at most once, and only by the tool
\* step that directly follows the generation that emitted it; every tool step
\* leaves no call pending, so no later step dispatches an earlier message's
\* calls, also after a response that carries none.
C11_DispatchedOnce ==
    /\ [](\A d, e \in 1..Len(dispatched) :
            dispatched[d] = dispatched[e] => d = e)
    /\ [][node = "execute_tools" =>
             /\ tool_calls' = <<>>
             /\ Last(messages).role = "assistant"
             /\ Len(dispatched') >= Len(dispatched)
             /\ SubSeq(dispatched', 1, Len(dispatched)) = dispatched
             /\ \A d \in (Len(dispatched) + 1)..Len(dispatched') :
                   dispatched'[d] \in CallIdsOf(Last(messages))]_vars
    /\ [][node # "execute_tools" => dispatched' = dispatched]_vars
    /\ []((node = "should_use_tools" /\ Last(messages).tool_calls = <<>>) =>
             tool_calls = <<>>)

\* C11 witness: after a tool step the model answers without tool calls while
\* budget is left, and the turn ends with the one dispatch it made.
C11_Witness ==
    /\ Returned
    /\ max_iterations = 2
    /\ tool_cycles = 1
    /\ Len(dispatched) = 1
    /\ Last(messages).role = "assistant"
    /\ Last(messages).tool_calls = <<>>

\* every response of the turn carried a tool call
EveryResponseCarriesCalls ==
    /\ ~gen_failed
    /\ gen_calls >= 1
    /\ \A i \in (Len(initial) + 1)..Len(messages) :
          messages[i].role = "assistant" => messages[i].tool_calls # <<>>

\* C12: budget exhaustion.  When every response carries a tool call and
\* max_iterations = N >= 0, the turn runs exactly N tool steps and N + 1
\* generation calls, never dispatches the calls of the last response, and
\* returns that response's content with status success.
C12_BudgetExhaustion ==
    (Returned /\ EveryResponseCarriesCalls /\ max_iterations >= 0) =>
        /\ tool_cycles = max_iterations
        /\ gen_calls = max_iterations + 1
        /\ Last(messages).role = "assistant"
        /\ CallIdsOf(Last(messages)) \cap DispatchedSet = {}
        /\ Len(dispatched) <= emitted - Len(Last(messages).tool_calls)
        /\ result.response = <<ReplyTexts[max_iterations + 1]>>
        /\ result.response = Last(messages).content
        /\ result.status = "success"

\* C12 witness: budget 1, two responses with tool calls, one tool step.
C12_Witness ==
    /\ Returned
    /\ EveryResponseCarriesCalls
    /\ max_iterations = 1
    /\ tool_cycles = 1
    /\ gen_calls = 2
    /\ result.response = <<"R2">>

\* the turn ended with tool calls it never executed, the budget used up
DroppedCalls ==
    /\ Returned
    /\ raised = NoError
    /\ tool_calls # <<>>
    /\ iteration_count = max_iterations

\* C13 as stated: the result of a turn that dropped tool calls does not carry
\* them.
C13_ResultHidesDroppedCalls ==
    DroppedCalls =>
        \A k \in 1..Len(tool_calls) :
            \A j \in 1..Len(result.tool_calls) :
                result.tool_calls[j] # tool_calls[k]

\* C13, amended: the dropped calls are never executed and nothing in the
\* result marks them as dropped (the status is success and the keys are those
\* of every successful result), but the result does carry them, as its
\* tool_calls entry and inside its message trace.
C13_ResultCarriesDroppedCalls ==
    DroppedCalls =>
        /\ result.keys = {"response", "tool_calls", "messages", "status"}
        /\ result.status = "success"
        /\ result.tool_calls = tool_calls
        /\ Last(result.messages).tool_calls = tool_calls
        /\ result.response = Last(messages).content
        /\ CallIdsOf(Last(messages)) \cap DispatchedSet = {}

\* C13 witness: a turn with budget 1 that dropped the calls of its second
\* response.
C13_Witness ==
    /\ DroppedCalls
    /\ max_iterations = 1
    /\ tool_cycles = 1
    /\ Len(result.tool_calls) = 1

\* what the registry answers when the tool step hands it the call
RegistryAnswer(tool_call) ==
    execute_tool(tool_call.function.name, tool_call.id,
                 JsonLoads(tool_call.function.arguments))

\* C17 as stated: every failing pending call is answered by the registry with
\* a ToolResponse whose error is set, and that error text is the content of
\* the tool message appended for the call.
C17_RegistryProducesEveryFailure ==
    [][node = "execute_tools" =>
         \A k \in 1..Len(tool_calls) :
            FailingCall(tool_calls[k]) =>
               /\ Dispatches(tool_calls[k])
               /\ RegistryAnswer(tool_calls[k]).error # Nothing
               /\ messages'[Len(messages) + k].content =
                     RegistryAnswer(tool_calls[k]).error[1]]_vars

\* C17, amended: every failing pending call becomes one tool message and no
\* fault leaves the tool step.  A call that reaches the registry (unknown
\* name, arguments the handler does not take, fault in the tool body) is
\* answered with error set and result none, and that error text is the
\* message content.  A call whose arguments text cannot be parsed, or that
\* has no id, never reaches the registry: the tool step catches the fault
\* itself and the content is "Tool execution error: " and the fault's text.
C17_FailureBecomesToolMessage ==
    [][node = "execute_tools" =>
         /\ raised' = NoError
         /\ Len(messages') = Len(messages) + Len(tool_calls)
         /\ \A k \in 1..Len(tool_calls) :
               LET call == tool_calls[k]
                   msg == messages'[Len(messages) + k] IN
               (FailingCall(call) \/ call.id = Absent) =>
                  /\ msg.role = "tool"
                  /\ IF JsonValid(call.function.arguments) /\ call.id # Absent
                     THEN /\ RegistryAnswer(call).error # Nothing
                          /\ RegistryAnswer(call).result = Nothing
                          /\ msg.content = RegistryAnswer(call).error[1]
                          /\ Head(msg.content) # "Tool execution error: "
                     ELSE /\ Head(msg.content) = "Tool execution error: "
                          /\ Len(msg.content) = 2]_vars

\* C17 witness: a finished turn holding a tool message with the text of a
\* fault of the tool body and one written by the tool step for arguments
\* that are no JSON.
C17_Witness ==
    /\ Returned
    /\ \E i, j \in 1..Len(messages) :
          /\ messages[i].role = "tool"
          /\ messages[i].content = <<"unhashable type: 'list'">>
          /\ messages[j].role = "tool"
          /\ messages[j].content =
                <<"Tool execution error: ",
                  "Expecting value: line 1 column 1 (char 0)">>

\* C18 as stated: every step changes the message sequence only by appending
\* entries at its end.
C18_AppendOnly ==
    [][/\ Len(messages') >= Len(messages)
       /\ SubSeq(messages', 1, Len(messages)) = messages]_vars

\* C18, amended: in every step the entries of the sequence keep their
\* positions, order, roles, tool calls and tool_call_ids, none is deleted and
\* the length never decreases; generation and tool steps only append.  The
\* retrieval step alone rewrites an entry: the content of the last one, which
\* still ends with the text it had.
C18_EntriesKept ==
    [][/\ Len(messages') >= Len(messages)
       /\ \A i \in 1..Len(messages) :
             /\ [messages'[i] EXCEPT !.content = messages[i].content] = messages[i]
             /\ messages'[i].content # messages[i].content =>
                   /\ node = "retrieve"
                   /\ i = Len(messages)
                   /\ Len(messages') = Len(messages)
                   /\ LET new == messages'[i].content
                          old == messages[i].content IN
                      /\ Len(new) > Len(old)
                      /\ SubSeq(new, Len(new) - Len(old) + 1, Len(new)) = old
       /\ node \in {"generate_response", "execute_tools"} =>
             SubSeq(messages', 1, Len(messages)) = messages]_vars

\* C18 witness: a finished turn whose retrieval rewrote the last message and
\* whose generation and tool steps appended after it.
C18_Witness ==
    /\ Returned
    /\ retrieval = "hit"
    /\ tool_cycles >= 1
    /\ Len(messages) >= Len(initial) + 3
    /\ messages[Len(initial)].content # initial[Len(initial)].content

RECURSIVE LastIndexOf(_, _)
\* the position of the last message of the role, or 0
LastIndexOf(role, msgs) ==
    IF msgs = <<>> THEN 0
    ELSE IF Last(msgs).role = role THEN Len(msgs)
    ELSE LastIndexOf(role, SubSeq(msgs, 1, Len(msgs) - 1))

\* C19: after a retrieval that returned passages, the last user-role message
\* of the initial sequence holds the context block followed by its original
\* text, and every other message is as it was.
C19_AugmentsLastUserMessage ==
    (node = "generate_response" /\ gen_calls = 0 /\ retrieval = "hit") =>
        LET u == LastIndexOf("user", initial) IN
        /\ u > 0
        /\ Len(messages) = Len(initial)
        /\ \E backend \in SearchBackends :
              /\ ~SearchRaises(backend)
              /\ search(backend) # <<>>
              /\ messages[u].content =
                    Augmented(search(backend), initial[u].content)
        /\ \A i \in 1..Len(initial) : i # u => messages[i] = initial[i]

\* C14: the final text is the content of the most recent assistant-role
\* message of the final sequence, with status success; with no assistant
\* message the status is error.
C14_MostRecentAssistant ==
    Returned =>
        LET a == LastIndexOf("assistant", messages) IN
        IF a > 0
        THEN /\ result.response = messages[a].content
             /\ result.status = "success"
             /\ \A i \in (a + 1)..Len(messages) :
                   messages[i].role # "assistant"
        ELSE result.status = "error"

\* C14 witness: two assistant messages of different content, a tool message
\* after them; the later assistant message is the final text.
C14_Witness ==
    /\ Returned
    /\ Len(messages) = 3
    /\ messages[1].role = "assistant"
    /\ messages[2].role = "assistant"
    /\ messages[3].role = "tool"
    /\ messages[1].content # messages[2].content
    /\ result.response = messages[2].content

\* C15: every ToolResponse of execute_tool has exactly one of result and
\* error populated, whatever the tool name and the argument mapping.
C15_ResultXorError ==
    direct # Nothing =>
        LET r == direct[1].response IN
        /\ (r.result = Nothing) # (r.error = Nothing)
        /\ r.error # Nothing => r.error[1] # <<>>

\* C15 witness: a registered tool whose body failed on its arguments.
C15_Witness ==
    /\ direct # Nothing
    /\ direct[1].tool_name = "get_map"
    /\ direct[1].arguments = [key |-> ListValue]
    /\ direct[1].response.error # Nothing

\* C16: execute_tool with an unregistered name returns, without raising and
\* without invoking a handler, a ToolResponse that carries the tool_call_id,
\* has no result and has the error "Unknown tool: <name>".
C16_UnknownTool ==
    (direct # Nothing /\ direct[1].tool_name \notin RegisteredTools) =>
        /\ direct[1].response.error =
              Just(<<"Unknown tool: ", direct[1].tool_name>>)
        /\ direct[1].response.result = Nothing
        /\ direct[1].response.tool_call_id = direct[1].tool_call_id
        /\ direct[1].handlers = <<>>

\* C16 witness: a name that differs from a registered one only in case.
C16_Witness ==
    /\ direct # Nothing
    /\ direct[1].tool_name = "GET_MAP"
    /\ direct[1].tool_call_id = "direct_call"

\* the turn of coroutine t, running or suspended
TurnOf(t) == IF turn = t THEN Suspended ELSE other[1]

Responses ==
    SelectSeq(heard, LAMBDA answer : answer[1] = "llm")

\* the completion carries tool calls
CarriesCalls(answer) ==
    /\ ~answer[2].raises
    /\ answer[2].choices # <<>>
    /\ answer[2].choices[1].message.tool_calls # <<>>

\* the completion is a reply with no tool call
PlainReply(answer) ==
    /\ ~answer[2].raises
    /\ answer[2].choices # <<>>
    /\ answer[2].choices[1].message.tool_calls = <<>>

\* C21: when the first k responses carry tool calls, k <= max_iterations, and
\* response k + 1 carries none, the turn runs exactly k tool cycles and k + 1
\* generation calls, ends with iteration_count = k and status success, and
\* returns the content of response k + 1.  The turn asks for response k + 1:
\* it does not end on a response that carries calls while budget is left.
C21_ToolRounds ==
    /\ (Returned /\ ~gen_failed /\ gen_calls >= 1
          /\ PlainReply(Last(Responses))) =>
            LET k == Len(Responses) - 1 IN
            /\ \A j \in 1..k : CarriesCalls(Responses[j])
            /\ k <= Max(max_iterations, 0)
            /\ tool_cycles = k
            /\ gen_calls = k + 1
            /\ iteration_count = k
            /\ result.status = "success"
            /\ result.response =
                  Last(Responses)[2].choices[1].message.content
            /\ k = 0 => dispatched = <<>>
    /\ (Returned /\ ~gen_failed /\ gen_calls >= 1
          /\ CarriesCalls(Last(Responses))) =>
            tool_cycles >= max_iterations

\* C21 witness: one round trip with budget to spare.
C21_Witness ==
    /\ Returned
    /\ max_iterations = 2
    /\ tool_cycles = 1
    /\ gen_calls = 2
    /\ iteration_count = 1
    /\ PlainReply(Last(Responses))
    /\ result.response = <<"R2">>

\* C23: the probes never raise.  The LLM probe is true only when GET /models
\* answered 200 and false on any failure, the vector store probe is true only
\* when get_collections returned; agent.health_check has a value for both
\* components and /health answers, with "healthy" exactly when both probes
\* returned true.
C23_ProbesNeverRaise ==
    (http # Nothing /\ http[1].endpoint = "/health") =>
        LET models == http[1].request.models
            collections == http[1].request.collections IN
        /\ http[1].status_code = 200
        /\ http[1].body.components.llm =
              (~models.fails /\ models.status_code = 200)
        /\ http[1].body.components.vector_store = ~collections.fails
        /\ http[1].body.status \in {"healthy", "unhealthy"}
        /\ http[1].body.status = "healthy" <=>
              /\ http[1].body.components.llm
              /\ http[1].body.components.vector_store

\* C23 witness: the LLM server is unreachable, Qdrant answers; /health
\* reports unhealthy with a value for both components.
C23_Witness ==
    /\ http # Nothing
    /\ http[1].endpoint = "/health"
    /\ http[1].request.models.fails
    /\ ~http[1].request.collections.fails
    /\ http[1].body.status = "unhealthy"
    /\ http[1].body.components = [llm |-> FALSE, vector_store |-> TRUE]

\* C24: when the search raises or returns no passage, the retrieval step
\* leaves the message sequence as it is and advances to context_retrieved, so
\* the first generation call is handed the initial sequence.
C24_RetrievalMissLeavesMessages ==
    /\ [][(node = "retrieve" /\ retrieval' \in {"raised", "empty"}) =>
             /\ messages' = messages
             /\ current_step' = "context_retrieved"
             /\ node' = "generate_response"]_vars
    /\ []((node = "generate_response" /\ gen_calls = 0
             /\ retrieval \in {"raised", "empty"}) =>
             /\ messages = initial
             /\ current_step = "context_retrieved")

\* C24 witness: a search that returned no passage, before the first
\* generation call.
C24_Witness ==
    /\ node = "generate_response"
    /\ gen_calls = 0
    /\ retrieval = "empty"
    /\ Len(messages) = 2
    /\ current_step = "context_retrieved"

\* C27: with max_iterations <= 0 no tool is dispatched, iteration_count stays
\* 0, and the turn makes exactly one generation call and finalizes with its
\* response, whose tool calls are never executed.
C27_NoBudgetNoTools ==
    max_iterations <= 0 =>
        /\ dispatched = <<>>
        /\ tool_cycles = 0
        /\ iteration_count = 0
        /\ gen_calls <= 1
        /\ node # "execute_tools"
        /\ Returned =>
              /\ gen_calls = 1
              /\ Len(messages) = Len(initial) + 1
              /\ result.response = Last(messages).content
              /\ \A i \in 1..Len(messages) : messages[i].role # "tool"

\* C27 witness: budget 0 and a response with two tool calls.
C27_Witness ==
    /\ Returned
    /\ max_iterations = 0
    /\ Len(Last(messages).tool_calls) = 2
    /\ Len(tool_calls) = 2

\* C28: every generation step appends exactly one assistant message at the
\* end; a graph run that did not raise ends with an assistant message of this
\* turn in the sequence, so "No response generated" is never returned and the
\* status is error only when the graph run raised.
C28_AlwaysAnAssistantMessage ==
    /\ [][(node = "generate_response" /\ gen_calls' # gen_calls) =>
             /\ Len(messages') = Len(messages) + 1
             /\ SubSeq(messages', 1, Len(messages)) = messages
             /\ Last(messages').role = "assistant"]_vars
    /\ []((node \in {"END", "returned"} /\ raised = NoError) =>
             \E i \in (Len(initial) + 1)..Len(messages) :
                 messages[i].role = "assistant")
    /\ [](Returned =>
             /\ result.response # <<"No response generated">>
             /\ result.status = "error" <=> raised # NoError)

\* C28 witness: a request with no message, a failed generation, a result that
\* still has an assistant message to return.
C28_Witness ==
    /\ Returned
    /\ initial = <<>>
    /\ gen_failed
    /\ raised = NoError
    /\ Len(messages) = 1
    /\ result.status = "success"

\* the tool names the schema list declares
SchemaNames ==
    { get_tool_schemas[i].function.name : i \in 1..Len(get_tool_schemas) }

\* a sequence with no entry twice
NoDuplicates(s) == \A i, j \in 1..Len(s) : s[i] = s[j] => i = j

\* C22: the schema table is static and in lockstep with the handlers: the
\* registered tool set is the one the constructor registered and no call of
\* execute_tool changes it, get_tool_schemas returns the same sequence before
\* and after every call, and the schema names, one schema each, are the
\* registered names.
C22_StaticSchemaTable ==
    /\ [](registry = RegisteredTools)
    /\ [](SchemaNames = registry)
    /\ [](NoDuplicates([i \in 1..Len(get_tool_schemas) |->
                           get_tool_schemas[i].function.name]))
    /\ [][/\ registry' = registry
          /\ get_tool_schemas' = get_tool_schemas]_vars

\* C22 witness: execute_tool was asked for a name that is not registered, and
\* the table is as it was.
C22_Witness ==
    /\ direct # Nothing
    /\ direct[1].tool_name = "does_not_exist"
    /\ registry = RegisteredTools
    /\ SchemaNames = registry

C26_RequestsCarrySchemas ==
    \A i \in 1..Len(heard) :
        heard[i][1] = "llm" => heard[i][3] = Just(get_tool_schemas)

\* the request omits its required field, or gives it empty
OmitsRequiredField ==
    /\ http # Nothing
    /\ \/ /\ http[1].endpoint = "/chat"
          /\ http[1].request.message \in {Absent, ""}
       \/ /\ http[1].endpoint = "/tools/execute"
          /\ http[1].request.tool_name = Absent

\* C29: a request that omits its required field is answered with status 400
\* and the detail "Message is required" or "tool_name is required", and the
\* agent is not called.
C29_MissingFieldIs400 ==
    OmitsRequiredField =>
        /\ http[1].status_code = 400
        /\ http[1].body.detail =
              IF http[1].endpoint = "/chat"
              THEN <<"Message is required">> ELSE <<"tool_name is required">>
        /\ http[1].agent_calls = <<>>

\* the mapping has an "error" key
HasErrorKey(items) == \E i \in 1..Len(items) : items[i][1] = "error"

\* C30: file_operations never raises, an error outcome leaves the file
\* system unchanged, and only a successful write or delete changes it, at the
\* given path only.
C30_ErrorsLeaveFilesUnchanged ==
    [][direct' # direct =>
         LET call == direct'[1].arguments
             answer == direct'[1].response IN
         /\ answer.error = Nothing
         /\ answer.result # Nothing
         /\ HasErrorKey(answer.result[1]) => fs' = fs
         /\ fs' # fs =>
               /\ call.operation \in {"write", "delete"}
               /\ \A p \in Paths \ {call.path} : fs'[p] = fs[p]]_vars

====
